---- MODULE Spec2Model ----
(***************************************************************************)
(* Lavarrock backend: theme store (routes/themes.py), plugin configuration *)
(* store (routes/config.py) and model-provider factory (models/factory.py).*)
(*                                                                         *)
(* Files hold sequences of JSON tokens.  json.dump writes the tokens of a  *)
(* value, json.load parses them back and fails on anything else.           *)
(***************************************************************************)
EXTENDS Integers, Sequences, FiniteSets, TLC

VARIABLES
    steps,          \* number of requests served so far (bounded by MaxOps)
    themesDir,      \* THEMES_DIR: file name -> file content (JSON tokens)
    thLast,         \* the last theme request: arguments, response, prior state
    live,           \* history: names uploaded and not deleted since
    recent,         \* history: the most recently uploaded name, if any
    configFile,     \* CONFIG_FILE: whether it exists, can be opened, its content
    defaultConfig,  \* the module-level DEFAULT_CONFIG dict of this process
    cfgLast,        \* the last plugin-config request: arguments, response, document read
    cfgPrev,        \* the plugin-config request before it
    facLast,        \* the last model-factory call: arguments and outcome
    inflight,       \* per client: its PATCH request, waiting or answered
    overlap         \* history: both clients' requests were waiting at once

themeVars == <<themesDir, thLast, live, recent>>
cfgVars == <<configFile, defaultConfig, cfgLast, cfgPrev>>
facVars == <<facLast>>
raceVars == <<inflight, overlap>>
vars == <<steps, themesDir, thLast, live, recent,
          configFile, defaultConfig, cfgLast, cfgPrev, facLast, inflight, overlap>>

\* Bound on the number of requests in one behaviour.
MaxOps == 3

(***************************************************************************)
(* JSON tokens                                                             *)
(***************************************************************************)
P(c)   == [t |-> c]                  \* punctuation and the literals true/false
Str(s) == [t |-> "str", v |-> s]     \* a JSON string
BadByte == [t |-> "bad_utf8"]        \* a byte that is not decodable text
IsStr(tok) == tok.t = "str"

ParseFail == [ok |-> FALSE, val |-> <<>>, next |-> 0]
Parsed(v, n) == [ok |-> TRUE, val |-> v, next |-> n]

\* dict item assignment m[k] = v
Put(m, k, v) == [x \in (DOMAIN m) \cup {k} |-> IF x = k THEN v ELSE m[x]]

\* Order in which the keys of a flat object are written.
KeyOrder == <<"name", "type", "k1", "k2">>

RECURSIVE DumpPairs(_, _)
DumpPairs(m, ks) ==
    IF ks = <<>> THEN <<>>
    ELSE (IF Head(ks) \in DOMAIN m THEN <<Str(Head(ks)), Str(m[Head(ks)])>> ELSE <<>>)
         \o DumpPairs(m, Tail(ks))

\* json.dump of a flat object (string keys, string values)
JsonDumpObj(m) == <<P("{")>> \o DumpPairs(m, KeyOrder) \o <<P("}")>>

\* members of an object, toks[i] being the token after "{" or after a member
RECURSIVE ParsePairs(_, _, _)
ParsePairs(toks, i, acc) ==
    IF i > Len(toks) THEN ParseFail
    ELSE IF toks[i] = P("}") THEN Parsed(acc, i + 1)
    ELSE IF i + 1 <= Len(toks) /\ IsStr(toks[i]) /\ IsStr(toks[i + 1])
         THEN ParsePairs(toks, i + 2, Put(acc, toks[i].v, toks[i + 1].v))
         ELSE ParseFail

\* a flat object starting at toks[i]
ParseObj(toks, i) ==
    IF i <= Len(toks) /\ toks[i] = P("{") THEN ParsePairs(toks, i + 1, <<>>)
    ELSE ParseFail

\* a parse result is the value of the text only if it consumed the whole text
WholeText(toks, r) == IF r.ok /\ r.next = Len(toks) + 1 THEN r ELSE ParseFail

\* json.load of a file holding a flat object
JsonLoadObj(toks) == WholeText(toks, ParseObj(toks, 1))

(***************************************************************************)
(* Theme store (routes/themes.py)                                          *)
(***************************************************************************)
ACTIVE_THEME_FILE == "active_theme.json"

\* Theme names a client may send.  "sub/x" names a file in a directory that
\* does not exist: the service creates THEMES_DIR only.
ThemeNames == {"dark", "light", "", "active_theme", "sub/x"}
\* Names that can appear as a path parameter of DELETE /api/themes/{theme_name}
PathNames == ThemeNames \ {"sub/x"}

\* Theme documents a client may send.
ThemeDocs == { [type |-> "dark"], [type |-> "light", name |-> "Solar"], <<>> }

\* THEMES_DIR / f"{name}.json"
ThemeFile(name) == name \o ".json"

\* open(theme_file, "w") fails when the parent directory is missing
ParentDirExists(name) == name # "sub/x"

\* Path.stem: the file name without its last suffix; a name that starts with
\* its only dot has no suffix.
Stem(f) == IF f = ".json" THEN ".json"
           ELSE CHOOSE n \in ThemeNames : ThemeFile(n) = f

NoTheme == [none |-> TRUE]
ThemeResponse(n, th, a) == [name |-> n, theme |-> th, active |-> a]
Ok(b) == [status |-> 200, body |-> b]
Err(code) == [status |-> code]

\* active_data.get("name") of the reference file, when the file exists
ActiveName(dir) ==
    IF ACTIVE_THEME_FILE \notin DOMAIN dir THEN [has |-> FALSE, name |-> ""]
    ELSE LET r == JsonLoadObj(dir[ACTIVE_THEME_FILE])
         IN IF r.ok /\ "name" \in DOMAIN r.val
            THEN [has |-> TRUE, name |-> r.val["name"]]
            ELSE [has |-> FALSE, name |-> ""]

\* the directory after upload_theme(name, theme)
UploadDir(dir, name, theme) ==
    LET d1 == Put(dir, ThemeFile(name), JsonDumpObj(theme))
    IN Put(d1, ACTIVE_THEME_FILE, JsonDumpObj([name |-> name]))

\* GET /api/themes/active
GetActive(dir) ==
    IF ACTIVE_THEME_FILE \notin DOMAIN dir THEN Ok(NoTheme)
    ELSE LET a == JsonLoadObj(dir[ACTIVE_THEME_FILE])
         IN IF ~a.ok THEN Err(500)
            ELSE IF "name" \notin DOMAIN a.val \/ a.val["name"] = "" THEN Ok(NoTheme)
            ELSE IF ThemeFile(a.val["name"]) \notin DOMAIN dir THEN Ok(NoTheme)
            ELSE LET th == JsonLoadObj(dir[ThemeFile(a.val["name"])])
                 IN IF ~th.ok THEN Err(500)
                    ELSE Ok(ThemeResponse(a.val["name"], th.val, TRUE))

\* GET /api/themes: the entries in no particular order
ListThemes(dir) ==
    LET an == ActiveName(dir)
        files == (DOMAIN dir) \ {ACTIVE_THEME_FILE}
    IN IF ACTIVE_THEME_FILE \in DOMAIN dir /\ ~JsonLoadObj(dir[ACTIVE_THEME_FILE]).ok
       THEN Err(500)
       ELSE IF \E f \in files : ~JsonLoadObj(dir[f]).ok THEN Err(500)
       ELSE Ok({ ThemeResponse(Stem(f), JsonLoadObj(dir[f]).val,
                               an.has /\ Stem(f) = an.name) : f \in files })

\* Path.unlink()
Unlink(dir, f) == [g \in (DOMAIN dir) \ {f} |-> dir[g]]

\* the directory after theme_file.unlink() and the clean-up of the reference
DeleteDir(dir, name) ==
    LET d1 == Unlink(dir, ThemeFile(name))
        an == ActiveName(d1)
    IN IF ACTIVE_THEME_FILE \in DOMAIN d1 /\ an.has /\ an.name = name
       THEN Unlink(d1, ACTIVE_THEME_FILE)
       ELSE d1

\* mutant: the existence check is left out
DeleteStatus_AlwaysOk(dir, name) == Ok("Theme deleted successfully")

\* response of DELETE /api/themes/{theme_name}
DeleteStatus(dir, name) ==
    IF ThemeFile(name) \notin DOMAIN dir THEN Err(404)
    ELSE IF /\ ACTIVE_THEME_FILE \in DOMAIN Unlink(dir, ThemeFile(name))
            /\ ~JsonLoadObj(dir[ACTIVE_THEME_FILE]).ok
         THEN Err(500)
    ELSE Ok("Theme deleted successfully")

ThemeInit ==
    /\ themesDir = <<>>
    /\ thLast = [op |-> "none", name |-> "", theme |-> <<>>, resp |-> Err(0),
                 pre |-> <<>>]
    /\ live = {}
    /\ recent = [has |-> FALSE, name |-> ""]

upload_theme(name, theme) ==
    /\ steps < MaxOps
    /\ UNCHANGED <<cfgVars, facVars, raceVars>>
    /\ steps' = steps + 1
    /\ IF ParentDirExists(name)
       THEN /\ themesDir' = UploadDir(themesDir, name, theme)
            /\ thLast' = [op |-> "upload", name |-> name, theme |-> theme,
                          resp |-> Ok(ThemeResponse(name, theme, TRUE)),
                          pre |-> themesDir]
            /\ live' = live \cup {name}
            /\ recent' = [has |-> TRUE, name |-> name]
       ELSE /\ thLast' = [op |-> "upload", name |-> name, theme |-> theme,
                          resp |-> Err(500), pre |-> themesDir]
            /\ UNCHANGED <<themesDir, live, recent>>

get_active_theme ==
    /\ steps < MaxOps
    /\ UNCHANGED <<cfgVars, facVars, raceVars>>
    /\ steps' = steps + 1
    /\ thLast' = [op |-> "get_active", name |-> "", theme |-> <<>>,
                  resp |-> GetActive(themesDir), pre |-> themesDir]
    /\ UNCHANGED <<themesDir, live, recent>>

list_themes ==
    /\ steps < MaxOps
    /\ UNCHANGED <<cfgVars, facVars, raceVars>>
    /\ steps' = steps + 1
    /\ thLast' = [op |-> "list", name |-> "", theme |-> <<>>,
                  resp |-> ListThemes(themesDir), pre |-> themesDir]
    /\ UNCHANGED <<themesDir, live, recent>>

delete_theme(name) ==
    /\ steps < MaxOps
    /\ UNCHANGED <<cfgVars, facVars, raceVars>>
    /\ steps' = steps + 1
    /\ thLast' = [op |-> "delete", name |-> name, theme |-> <<>>,
                  resp |-> DeleteStatus(themesDir, name), pre |-> themesDir]
    /\ IF DeleteStatus(themesDir, name).status # 404
       THEN /\ themesDir' = DeleteDir(themesDir, name)
            /\ live' = live \ {name}
            /\ UNCHANGED recent
       ELSE UNCHANGED <<themesDir, live, recent>>

ThemeNext ==
    \/ \E n \in ThemeNames, th \in ThemeDocs : upload_theme(n, th)
    \/ get_active_theme
    \/ list_themes
    \/ \E n \in PathNames : delete_theme(n)


(***************************************************************************)
(* Plugin configuration store (routes/config.py)                           *)
(***************************************************************************)
\* dict.get(k, default)
Get(m, k, dflt) == IF k \in DOMAIN m THEN m[k] ELSE dflt

\* mutant: the new mapping replaces the old one
Merge_Replace(a, b) == b

\* {**a, **b}
Merge(a, b) == [k \in (DOMAIN a) \cup (DOMAIN b) |-> IF k \in DOMAIN b THEN b[k] ELSE a[k]]

DefaultIds ==
    << "lavarrock.ui", "lavarrock.wm", "lavarrock.tooltips", "lavarrock.header",
       "lavarrock.search-modal", "lavarrock.app-modal", "lavarrock.search-bar",
       "lavarrock.app-launcher", "lavarrock.json-tool", "lavarrock.theme-engine",
       "lavarrock.theme-manager", "lavarrock.theme-import", "lavarrock.layout-engine",
       "lavarrock.settings-engine", "lavarrock.layout-manager",
       "lavarrock.settings-manager" >>

\* the DEFAULT_CONFIG literal
DEFAULT_CONFIG ==
    [plugins |-> [i \in 1..Len(DefaultIds) |->
                    [id |-> DefaultIds[i], enabled |-> TRUE, settings |-> <<>>]]]

\* mutant: missing fields are written with their defaults
DumpEntry_Normalised(e) ==
    <<P("{"), Str("id"), Str(e["id"]),
      Str("enabled"), P(IF "enabled" \in DOMAIN e /\ ~e["enabled"] THEN "false" ELSE "true"),
      Str("settings")>>
    \o JsonDumpObj(IF "settings" \in DOMAIN e THEN e["settings"] ELSE <<>>)
    \o <<P("}")>>

\* json.dumps of one plugin entry
DumpEntry(e) ==
    <<P("{")>>
    \o (IF "id" \in DOMAIN e THEN <<Str("id"), Str(e["id"])>> ELSE <<>>)
    \o (IF "enabled" \in DOMAIN e
        THEN <<Str("enabled"), P(IF e["enabled"] THEN "true" ELSE "false")>> ELSE <<>>)
    \o (IF "settings" \in DOMAIN e
        THEN <<Str("settings")>> \o JsonDumpObj(e["settings"]) ELSE <<>>)
    \o <<P("}")>>

RECURSIVE DumpEntries(_)
DumpEntries(es) ==
    IF es = <<>> THEN <<>> ELSE DumpEntry(Head(es)) \o DumpEntries(Tail(es))

\* json.dumps(config)
JsonDumpDoc(d) ==
    <<P("{")>>
    \o (IF "plugins" \in DOMAIN d
        THEN <<Str("plugins"), P("[")>> \o DumpEntries(d["plugins"]) \o <<P("]")>>
        ELSE <<>>)
    \o <<P("}")>>

\* members of a plugin entry, toks[i] being the token after "{" or after a member
RECURSIVE ParseEntryFields(_, _, _)

\* the members that follow a parsed settings object
AfterSettings(toks, acc, r) ==
    IF r.ok THEN ParseEntryFields(toks, r.next, Put(acc, "settings", r.val))
    ELSE ParseFail

ParseEntryFields(toks, i, acc) ==
    IF i > Len(toks) THEN ParseFail
    ELSE IF toks[i] = P("}") THEN Parsed(acc, i + 1)
    ELSE IF ~IsStr(toks[i]) \/ i + 1 > Len(toks) THEN ParseFail
    ELSE IF toks[i].v = "id" /\ IsStr(toks[i + 1])
         THEN ParseEntryFields(toks, i + 2, Put(acc, "id", toks[i + 1].v))
    ELSE IF toks[i].v = "enabled" /\ toks[i + 1] \in {P("true"), P("false")}
         THEN ParseEntryFields(toks, i + 2, Put(acc, "enabled", toks[i + 1] = P("true")))
    ELSE IF toks[i].v = "settings"
         THEN AfterSettings(toks, acc, ParseObj(toks, i + 1))
    ELSE ParseFail

\* elements of the plugins array, toks[i] being the token after "[" or after an element
RECURSIVE ParseEntries(_, _, _)

\* the elements that follow a parsed entry
AfterEntry(toks, acc, r) ==
    IF r.ok THEN ParseEntries(toks, r.next, Append(acc, r.val)) ELSE ParseFail

ParseEntries(toks, i, acc) ==
    IF i > Len(toks) THEN ParseFail
    ELSE IF toks[i] = P("]") THEN Parsed(acc, i + 1)
    ELSE IF toks[i] = P("{")
         THEN AfterEntry(toks, acc, ParseEntryFields(toks, i + 1, <<>>))
    ELSE ParseFail

\* the document whose plugins array was parsed: "}" must end the text
ClosePlugins(toks, r) ==
    IF r.ok /\ r.next = Len(toks) /\ toks[r.next] = P("}")
    THEN Parsed([plugins |-> r.val], Len(toks) + 1)
    ELSE ParseFail

\* json.loads(text): the whole text must be one configuration document
JsonLoadDoc(toks) ==
    IF Len(toks) < 2 \/ toks[1] # P("{") THEN ParseFail
    ELSE IF toks[2] = P("}")
         THEN (IF Len(toks) = 2 THEN Parsed(<<>>, 3) ELSE ParseFail)
    ELSE IF Len(toks) >= 3 /\ toks[2] = Str("plugins") /\ toks[3] = P("[")
         THEN ClosePlugins(toks, ParseEntries(toks, 4, <<>>))
    ELSE ParseFail

\* CONFIG_FILE is absent, a regular file, or a path that cannot be opened
\* (open() raises OSError for reading and for writing).
Absent == [state |-> "absent", bytes |-> <<>>]
File(b) == [state |-> "file", bytes |-> b]

\* Path.read_text(): decoding fails on a byte that is not text
Decodable(b) == \A i \in 1..Len(b) : b[i] # BadByte

\* return json.loads(...), or DEFAULT_CONFIG.copy() after a JSONDecodeError
LoadedOrDefault(r, dflt) ==
    IF r.ok THEN [ok |-> TRUE, val |-> r.val, fallback |-> FALSE]
    ELSE [ok |-> TRUE, val |-> dflt, fallback |-> TRUE]

\* _read_config(): ok is FALSE when an exception escapes; fallback tells that
\* the value is DEFAULT_CONFIG.copy(), a dict that shares the plugins list and
\* its entries with DEFAULT_CONFIG.
ReadConfig(file, dflt) ==
    IF file.state = "absent" THEN [ok |-> TRUE, val |-> dflt, fallback |-> TRUE]
    ELSE IF file.state = "unreadable" THEN [ok |-> TRUE, val |-> dflt, fallback |-> TRUE]
    ELSE IF ~Decodable(file.bytes) THEN [ok |-> FALSE, val |-> <<>>, fallback |-> FALSE]
    ELSE LoadedOrDefault(JsonLoadDoc(file.bytes), dflt)

\* mutant: an existing file is not written again
WriteConfig_KeepsExisting(file, config) ==
    IF file.state = "unreadable" THEN [ok |-> FALSE, file |-> file]
    ELSE IF file.state = "file" THEN [ok |-> TRUE, file |-> file]
    ELSE [ok |-> TRUE, file |-> [state |-> "file", bytes |-> JsonDumpDoc(config)]]

\* _write_config(config): ok is FALSE when write_text raises
WriteConfig(file, config) ==
    IF file.state = "unreadable" THEN [ok |-> FALSE, file |-> file]
    ELSE [ok |-> TRUE, file |-> File(JsonDumpDoc(config))]

\* index of the first entry with the given id, 0 when there is none
FirstIndex(plugins, id) ==
    IF \E i \in 1..Len(plugins) : plugins[i]["id"] = id
    THEN CHOOSE i \in 1..Len(plugins) :
            /\ plugins[i]["id"] = id
            /\ \A j \in 1..(i - 1) : plugins[j]["id"] # id
    ELSE 0

\* the entry after the merge of body into it
PatchedEntry(entry, body) ==
    Put(Put(entry, "enabled", Get(body, "enabled", Get(entry, "enabled", TRUE))),
        "settings", Merge(Get(entry, "settings", <<>>), Get(body, "settings", <<>>)))

\* mutant: a created entry is disabled unless the body enables it
NewEntry_Disabled(id, body) ==
    [id |-> id, enabled |-> IF "enabled" \in DOMAIN body THEN body["enabled"] ELSE FALSE,
     settings |-> IF "settings" \in DOMAIN body THEN body["settings"] ELSE <<>>]

\* the entry created for an id that is not in the document
NewEntry(id, body) ==
    [id |-> id, enabled |-> Get(body, "enabled", TRUE),
     settings |-> Get(body, "settings", <<>>)]

\* the merged or created entry, for the document read
PatchEntryOf(rd, id, body) ==
    LET plugins == Get(rd.val, "plugins", <<>>)
        idx == FirstIndex(plugins, id)
    IN IF idx > 0 THEN PatchedEntry(plugins[idx], body) ELSE NewEntry(id, body)

\* the document read, with the entry merged in place or appended
PatchConfigOf(rd, id, entry) ==
    LET plugins == Get(rd.val, "plugins", <<>>)
        idx == FirstIndex(plugins, id)
    IN IF idx > 0
       THEN Put(rd.val, "plugins", [plugins EXCEPT ![idx] = entry])
       ELSE Put(rd.val, "plugins", Append(plugins, entry))

\* _write_config(config); return entry.  A document that came from
\* DEFAULT_CONFIG.copy() shares its plugins with DEFAULT_CONFIG, which is
\* changed with it, before the write.
PatchStore(dflt, rd, id, entry, config, wr) ==
    [resp |-> IF wr.ok THEN Ok(entry) ELSE Err(500),
     file |-> wr.file,
     dflt |-> IF rd.fallback THEN config ELSE dflt,
     pre |-> rd.val, read |-> TRUE,
     found |-> FirstIndex(Get(rd.val, "plugins", <<>>), id) > 0]

\* patch_plugin after config = _read_config()
PatchFrom(file, dflt, id, body, rd) ==
    IF ~rd.ok
    THEN [resp |-> Err(500), file |-> file, dflt |-> dflt, pre |-> <<>>,
          read |-> FALSE, found |-> FALSE]
    ELSE PatchStore(dflt, rd, id, PatchEntryOf(rd, id, body),
                    PatchConfigOf(rd, id, PatchEntryOf(rd, id, body)),
                    WriteConfig(file, PatchConfigOf(rd, id, PatchEntryOf(rd, id, body))))

\* patch_plugin(plugin_id, body): the response, the file and DEFAULT_CONFIG
\* afterwards, the document read and whether the id was found in it
PatchPlugin(file, dflt, id, body) ==
    PatchFrom(file, dflt, id, body, ReadConfig(file, dflt))

\* Documents a client may PUT.
ReplaceDocs ==
    { <<>>,
      [plugins |-> << [id |-> "lavarrock.ui", enabled |-> FALSE, settings |-> [k1 |-> "a"]],
                      [id |-> "x", enabled |-> TRUE, settings |-> <<>>] >>],
      [plugins |-> << [id |-> "x"] >>],
      [plugins |-> << [id |-> "x", enabled |-> TRUE, settings |-> [k1 |-> "a"]],
                      [id |-> "x", enabled |-> FALSE, settings |-> [k2 |-> "b"]] >>] }

\* Plugin ids and bodies a client may PATCH.
PatchIds == {"lavarrock.ui", "x"}
PatchBodies ==
    { <<>>, [enabled |-> FALSE], [settings |-> [k1 |-> "a"]], [settings |-> [k2 |-> "b"]],
      [enabled |-> TRUE, settings |-> [k1 |-> "c"]] }

\* Bytes another program may leave in CONFIG_FILE: cut-off JSON, bytes that
\* are not text.
ForeignBytes == { <<P("{"), Str("plugins")>>, <<BadByte>> }

NoCfgOp == [op |-> "none", id |-> "", body |-> <<>>, resp |-> Err(0), pre |-> <<>>,
            read |-> FALSE, found |-> FALSE]

ConfigInit ==
    /\ configFile = Absent
    /\ defaultConfig = DEFAULT_CONFIG
    /\ cfgLast = NoCfgOp
    /\ cfgPrev = NoCfgOp

\* the record of a get_config request
ReadRecord(rd) ==
    [op |-> "read", id |-> "", body |-> <<>>,
     resp |-> IF rd.ok THEN Ok(rd.val) ELSE Err(500),
     pre |-> rd.val, read |-> rd.ok, found |-> FALSE]

get_config ==
    /\ steps < MaxOps
    /\ UNCHANGED <<themeVars, facVars, raceVars>>
    /\ steps' = steps + 1
    /\ cfgLast' = ReadRecord(ReadConfig(configFile, defaultConfig))
    /\ cfgPrev' = cfgLast
    /\ UNCHANGED <<configFile, defaultConfig>>

\* _write_config(body); return body
ReplaceApply(body, wr) ==
    /\ configFile' = wr.file
    /\ cfgLast' = [op |-> "replace", id |-> "", body |-> body,
                   resp |-> IF wr.ok THEN Ok(body) ELSE Err(500),
                   pre |-> <<>>, read |-> FALSE, found |-> FALSE]

put_config(body) ==
    /\ steps < MaxOps
    /\ UNCHANGED <<themeVars, facVars, raceVars>>
    /\ steps' = steps + 1
    /\ ReplaceApply(body, WriteConfig(configFile, body))
    /\ cfgPrev' = cfgLast
    /\ UNCHANGED defaultConfig

\* the body of the handler patch_plugin: it has no await, so the event loop
\* runs it from the read to the write without serving another request
\* the state after the handler, r being what patch_plugin did
PatchApply(plugin_id, body, r) ==
    /\ configFile' = r.file
    /\ defaultConfig' = r.dflt
    /\ cfgLast' = [op |-> "patch", id |-> plugin_id, body |-> body,
                   resp |-> r.resp, pre |-> r.pre, read |-> r.read,
                   found |-> r.found]
    /\ cfgPrev' = cfgLast

PatchHandler(plugin_id, body) ==
    PatchApply(plugin_id, body, PatchPlugin(configFile, defaultConfig, plugin_id, body))

patch_plugin(plugin_id, body) ==
    /\ steps < MaxOps
    /\ UNCHANGED <<themeVars, facVars, raceVars>>
    /\ steps' = steps + 1
    /\ PatchHandler(plugin_id, body)

\* another program removes CONFIG_FILE
RemoveFile ==
    /\ steps < MaxOps
    /\ UNCHANGED <<themeVars, facVars, raceVars>>
    /\ steps' = steps + 1
    /\ configFile.state # "absent"
    /\ configFile' = Absent
    /\ cfgLast' = [NoCfgOp EXCEPT !.op = "remove"]
    /\ cfgPrev' = cfgLast
    /\ UNCHANGED defaultConfig

\* another program writes bytes to CONFIG_FILE
OverwriteFile(b) ==
    /\ steps < MaxOps
    /\ UNCHANGED <<themeVars, facVars, raceVars>>
    /\ steps' = steps + 1
    /\ configFile.state # "unreadable"
    /\ configFile' = File(b)
    /\ cfgLast' = [NoCfgOp EXCEPT !.op = "overwrite"]
    /\ cfgPrev' = cfgLast
    /\ UNCHANGED defaultConfig

\* CONFIG_FILE can no longer be opened
BlockFile ==
    /\ steps < MaxOps
    /\ UNCHANGED <<themeVars, facVars, raceVars>>
    /\ steps' = steps + 1
    /\ configFile.state = "file"
    /\ configFile' = [configFile EXCEPT !.state = "unreadable"]
    /\ cfgLast' = [NoCfgOp EXCEPT !.op = "block"]
    /\ cfgPrev' = cfgLast
    /\ UNCHANGED defaultConfig

ConfigNext ==
    \/ get_config
    \/ \E d \in ReplaceDocs : put_config(d)
    \/ \E id \in PatchIds, b \in PatchBodies : patch_plugin(id, b)
    \/ RemoveFile
    \/ \E b \in ForeignBytes : OverwriteFile(b)
    \/ BlockFile

(***************************************************************************)
(* Model factory (models/factory.py) and provider configs (config.py)      *)
(***************************************************************************)
Providers == {"ollama", "bedrock"}

\* temperature values that pydantic accepts as a float
Numeric == {"0.7", "0.3", "0.5"}

\* class OllamaConfig: fields and defaults
OllamaDefaults ==
    [provider |-> "ollama", host |-> "http://localhost:11434",
     model_id |-> "llama3.1:latest", temperature |-> "0.7", keep_alive |-> "10m"]
OllamaFields == {"provider", "host", "model_id", "temperature", "keep_alive"}

\* class BedrockConfig: fields and defaults; profile = None is an absent key
BedrockDefaults ==
    [provider |-> "bedrock", model_id |-> "anthropic.claude-sonnet-4-20250514-v1:0",
     region |-> "us-west-2", temperature |-> "0.3"]
BedrockFields == {"provider", "model_id", "region", "profile", "temperature"}

\* pydantic validation of keyword arguments: no unknown field, numeric temperature
ValidFields(d, allowed) ==
    /\ DOMAIN d \subseteq allowed
    /\ "temperature" \in DOMAIN d => d["temperature"] \in Numeric

Typed(kind, fields) == [kind |-> kind, fields |-> fields]

NoModel == [outcome |-> "none", error |-> "", entered |-> {}, calls |-> <<>>,
            model |-> <<>>]
Raised(outcome, error, entered) ==
    [outcome |-> outcome, error |-> error, entered |-> entered, calls |-> <<>>,
     model |-> <<>>]

\* mutant: an unknown provider falls back to the Ollama configuration
ConvertDict_DefaultsToOllama(d) ==
    IF "provider" \in DOMAIN d /\ d["provider"] = "bedrock"
    THEN [ok |-> TRUE, config |-> Typed("BedrockConfig", BedrockDefaults),
          raised |-> NoModel]
    ELSE [ok |-> TRUE, config |-> Typed("OllamaConfig", OllamaDefaults),
          raised |-> NoModel]

\* the conversion of a dict at the head of create_model
ConvertDict(d) ==
    IF "provider" \in DOMAIN d /\ d["provider"] = "ollama"
    THEN IF ValidFields(d, OllamaFields)
         THEN [ok |-> TRUE, config |-> Typed("OllamaConfig", Merge(OllamaDefaults, d)),
               raised |-> NoModel]
         ELSE [ok |-> FALSE, config |-> Typed("none", <<>>),
               raised |-> Raised("ValidationError", "OllamaConfig", {})]
    ELSE IF "provider" \in DOMAIN d /\ d["provider"] = "bedrock"
    THEN IF ValidFields(d, BedrockFields)
         THEN [ok |-> TRUE, config |-> Typed("BedrockConfig", Merge(BedrockDefaults, d)),
               raised |-> NoModel]
         ELSE [ok |-> FALSE, config |-> Typed("none", <<>>),
               raised |-> Raised("ValidationError", "BedrockConfig", {})]
    ELSE [ok |-> FALSE, config |-> Typed("none", <<>>),
          raised |-> Raised("ValueError", "Unsupported provider", {})]

\* _create_ollama_model(config); installed: the provider packages that import
CreateOllama(f, installed) ==
    IF "ollama" \notin installed
    THEN Raised("ImportError", "ollama", {"ollama"})
    ELSE [outcome |-> "model", error |-> "", entered |-> {"ollama"},
          calls |-> <<"OllamaModel">>,
          model |-> [class |-> "OllamaModel", host |-> f["host"],
                     model_id |-> f["model_id"], temperature |-> f["temperature"],
                     keep_alive |-> f["keep_alive"]]]

\* _create_bedrock_model(config)
CreateBedrock(f, installed) ==
    LET region  == Get(f, "region", "")
        profile == Get(f, "profile", "")
        base == [class |-> "BedrockModel", model_id |-> f["model_id"],
                 temperature |-> f["temperature"], streaming |-> "true"]
        withRegion == IF region # "" THEN Put(base, "region_name", region) ELSE base
        kwargs == IF profile # "" THEN Put(withRegion, "client", profile) ELSE withRegion
    IN IF "bedrock" \notin installed
       THEN Raised("ImportError", "bedrock", {"bedrock"})
       ELSE [outcome |-> "model", error |-> "", entered |-> {"bedrock"},
             calls |-> IF profile # ""
                       THEN <<"boto3.Session", "session.client", "BedrockModel">>
                       ELSE <<"BedrockModel">>,
             model |-> kwargs]

\* ModelFactory.create_model(config)
CreateModel(config, installed) ==
    LET conv == IF config.kind = "dict" THEN ConvertDict(config.fields)
                ELSE [ok |-> TRUE, config |-> config, raised |-> NoModel]
    IN IF ~conv.ok THEN conv.raised
       ELSE IF conv.config.kind = "OllamaConfig"
            THEN CreateOllama(conv.config.fields, installed)
       ELSE IF conv.config.kind = "BedrockConfig"
            THEN CreateBedrock(conv.config.fields, installed)
       ELSE Raised("ValueError", "Unsupported config type", {})

\* ModelFactory.create_from_settings(settings)
CreateFromSettings(st, installed) ==
    IF st["ai_provider"] = "ollama"
    THEN CreateModel(Typed("OllamaConfig",
             Merge(OllamaDefaults, [host |-> st["ollama_host"],
                                    model_id |-> st["ollama_model"],
                                    temperature |-> st["ollama_temperature"]])), installed)
    ELSE IF st["ai_provider"] = "bedrock"
    THEN CreateModel(Typed("BedrockConfig",
             Merge(BedrockDefaults, [model_id |-> st["bedrock_model"],
                                     region |-> st["bedrock_region"],
                                     temperature |-> st["bedrock_temperature"]])), installed)
    ELSE Raised("ValueError", "Unsupported AI provider", {})

\* class Settings: the fields the factory reads, with their defaults
SettingsDefaults ==
    [ai_provider |-> "ollama", ollama_host |-> "http://localhost:11434",
     ollama_model |-> "llama3.1:latest", ollama_temperature |-> "0.7",
     bedrock_region |-> "us-west-2",
     bedrock_model |-> "anthropic.claude-sonnet-4-20250514-v1:0",
     bedrock_temperature |-> "0.3"]

\* Settings snapshots: either provider, the region possibly set empty
SettingsPool ==
    { [[SettingsDefaults EXCEPT !["ai_provider"] = p] EXCEPT !["bedrock_region"] = r] :
        p \in Providers, r \in {"us-west-2", ""} }

\* Mappings a caller may pass: any provider value or none, with or without a
\* profile, with a good, a bad or no temperature.
DictPool ==
    { Merge(Merge(pv, pf), tp) :
        pv \in { <<>> } \cup { [provider |-> x] : x \in {"ollama", "bedrock", "openai", "Ollama", ""} },
        pf \in { <<>>, [profile |-> "dev"] },
        tp \in { <<>>, [temperature |-> "0.5"], [temperature |-> "hot"] } }

\* Arguments of create_model: mappings, config objects, and an object of
\* another type.
ConfigPool ==
    { Typed("dict", d) : d \in DictPool }
    \cup { Typed("OllamaConfig", OllamaDefaults),
           Typed("BedrockConfig", BedrockDefaults),
           Typed("BedrockConfig", Put(BedrockDefaults, "profile", "dev")),
           Typed("Settings", SettingsDefaults) }

FactoryInit ==
    facLast = [op |-> "none", config |-> Typed("none", <<>>), installed |-> {},
               result |-> NoModel]

create_model(config, installed) ==
    /\ steps < MaxOps
    /\ UNCHANGED <<themeVars, cfgVars, raceVars>>
    /\ steps' = steps + 1
    /\ facLast' = [op |-> "create_model", config |-> config, installed |-> installed,
                   result |-> CreateModel(config, installed)]

create_from_settings(st, installed) ==
    /\ steps < MaxOps
    /\ UNCHANGED <<themeVars, cfgVars, raceVars>>
    /\ steps' = steps + 1
    /\ facLast' = [op |-> "create_from_settings", config |-> Typed("Settings", st),
                   installed |-> installed,
                   result |-> CreateFromSettings(st, installed)]

FactoryNext ==
    \/ \E c \in ConfigPool, inst \in SUBSET Providers : create_model(c, inst)
    \/ \E st \in SettingsPool, inst \in SUBSET Providers : create_from_settings(st, inst)

(***************************************************************************)
(* Two callers of PATCH /api/config/plugin/{plugin_id} (main.py runs one   *)
(* uvicorn process with one event loop)                                    *)
(***************************************************************************)
Clients == {"c1", "c2"}

Idle == [state |-> "idle", id |-> "", body |-> <<>>, resp |-> Err(0)]

RaceInit ==
    /\ inflight = [c \in Clients |-> Idle]
    /\ overlap = FALSE

\* a document is stored before the callers start
SeedStore(d) ==
    /\ \A c \in Clients : inflight[c].state = "idle"
    /\ cfgLast.op = "none"
    /\ put_config(d)

\* a caller sends its request; it waits until the event loop serves it
SendPatch(c, plugin_id, body) ==
    /\ inflight[c].state = "idle"
    /\ inflight' = [inflight EXCEPT ![c] = [state |-> "pending", id |-> plugin_id,
                                            body |-> body, resp |-> Err(0)]]
    /\ overlap' = (overlap \/ \E o \in Clients \ {c} : inflight[o].state = "pending")
    /\ UNCHANGED <<steps, themeVars, cfgVars, facVars>>

\* the event loop runs the handler of one waiting request to completion
ServePatch(c) ==
    /\ inflight[c].state = "pending"
    /\ PatchHandler(inflight[c].id, inflight[c].body)
    /\ inflight' = [inflight EXCEPT ![c].state = "done", ![c].resp = cfgLast'.resp]
    /\ UNCHANGED <<steps, themeVars, facVars, overlap>>

RaceNext ==
    \/ \E d \in ReplaceDocs : SeedStore(d)
    \/ \E c \in Clients, id \in PatchIds, b \in PatchBodies : SendPatch(c, id, b)
    \/ \E c \in Clients : ServePatch(c)

(***************************************************************************)
(* Specifications                                                          *)
(***************************************************************************)
Init == steps = 0 /\ ThemeInit /\ ConfigInit /\ FactoryInit /\ RaceInit

SpecThemes == Init /\ [][ThemeNext]_vars
SpecConfig == Init /\ [][ConfigNext]_vars
SpecFactory == Init /\ [][FactoryNext]_vars
SpecRace == Init /\ [][RaceNext]_vars

(***************************************************************************)
(* Claims about the theme store                                            *)
(***************************************************************************)
UploadSucceeded == thLast.op = "upload" /\ thLast.resp.status = 200
DeleteSucceeded == thLast.op = "delete" /\ thLast.resp.status = 200

\* C1: after a successful upload(x, T), getActive() returns exactly
\* {name: x, theme: T, active: true}, for every name x and document T.
C1_UploadThenGetActive ==
    UploadSucceeded =>
        GetActive(themesDir) = Ok(ThemeResponse(thLast.name, thLast.theme, TRUE))

\* C2: after a successful delete(n), getActive() is "none" if n was the active
\* theme before the call, and otherwise equals what it returned before the call.
C2_DeleteEffectOnActive ==
    DeleteSucceeded =>
        LET before == GetActive(thLast.pre)
            wasActive == /\ before.status = 200
                         /\ before.body # NoTheme
                         /\ before.body.name = thLast.name
        IN GetActive(themesDir) = IF wasActive THEN Ok(NoTheme) ELSE before

C9_ListActiveMarking ==
    LET r == ListThemes(themesDir)
    IN /\ r.status = 200
       /\ { e.name : e \in r.body } = live
       /\ Cardinality(r.body) = Cardinality(live)
       /\ Cardinality({ e \in r.body : e.active }) <= 1
       /\ \A e \in r.body :
            e.active <=> (recent.has /\ e.name = recent.name /\ recent.name \in live)

(***************************************************************************)
(* Claims about the plugin configuration store                             *)
(***************************************************************************)
PatchSucceeded == cfgLast.op = "patch" /\ cfgLast.resp.status = 200
SettingsOnly(body) == DOMAIN body = {"settings"}

\* the plugins of the document now in CONFIG_FILE
PersistedPlugins == Get(JsonLoadDoc(configFile.bytes).val, "plugins", <<>>)

\* C3: whenever CONFIG_FILE is absent, unreadable, or holds bytes that are not
\* valid JSON (bytes that are not text included), read() returns without error
\* and its result is the hard-coded default document, whatever reads, replaces
\* and patches came before.
C3_ReadFallsBackToDefault ==
    (\/ configFile.state \in {"absent", "unreadable"}
     \/ ~Decodable(configFile.bytes)
     \/ ~JsonLoadDoc(configFile.bytes).ok) =>
        LET rd == ReadConfig(configFile, defaultConfig)
        IN rd.ok /\ rd.val = DEFAULT_CONFIG

\* C4: a patch {settings: S} without enabled on an existing entry keeps the
\* entry's enabled value (true when it had none) and the settings keys not in S,
\* sets the keys of S, leaves the other entries alone; two successive such
\* patches of one id with disjoint keys leave the original settings overridden
\* by the union of both.
C4_PatchMergesSettings ==
    /\ (PatchSucceeded /\ cfgLast.found /\ SettingsOnly(cfgLast.body)) =>
        LET pre  == cfgLast.pre["plugins"]
            post == PersistedPlugins
            i    == FirstIndex(pre, cfgLast.id)
            S    == cfgLast.body["settings"]
            oldS == Get(pre[i], "settings", <<>>)
        IN /\ Len(post) = Len(pre)
           /\ \A j \in 1..Len(pre) : j # i => post[j] = pre[j]
           /\ DOMAIN post[i] = {"id", "enabled", "settings"}
           /\ post[i]["id"] = cfgLast.id
           /\ post[i]["enabled"] = Get(pre[i], "enabled", TRUE)
           /\ DOMAIN post[i]["settings"] = (DOMAIN oldS) \cup (DOMAIN S)
           /\ \A k \in DOMAIN S : post[i]["settings"][k] = S[k]
           /\ \A k \in (DOMAIN oldS) \ (DOMAIN S) : post[i]["settings"][k] = oldS[k]
           /\ cfgLast.resp.body = post[i]
    /\ (/\ PatchSucceeded /\ cfgLast.found /\ SettingsOnly(cfgLast.body)
        /\ cfgPrev.op = "patch" /\ cfgPrev.resp.status = 200 /\ cfgPrev.found
        /\ SettingsOnly(cfgPrev.body) /\ cfgPrev.id = cfgLast.id
        /\ (DOMAIN cfgPrev.body["settings"]) \cap (DOMAIN cfgLast.body["settings"]) = {}) =>
        LET pre0 == cfgPrev.pre["plugins"]
            orig == Get(pre0[FirstIndex(pre0, cfgLast.id)], "settings", <<>>)
            S1   == cfgPrev.body["settings"]
            S2   == cfgLast.body["settings"]
            post == PersistedPlugins
            both == [k \in (DOMAIN S1) \cup (DOMAIN S2) |->
                        IF k \in DOMAIN S1 THEN S1[k] ELSE S2[k]]
        IN post[FirstIndex(post, cfgLast.id)]["settings"] =
              [k \in (DOMAIN orig) \cup (DOMAIN both) |->
                  IF k \in DOMAIN both THEN both[k] ELSE orig[k]]

\* C4 witness: two successive settings-only patches of one existing entry with
\* disjoint keys, the second one on an entry that holds a key it does not name.
C4_Witness ==
    /\ PatchSucceeded /\ cfgLast.found /\ SettingsOnly(cfgLast.body)
    /\ cfgPrev.op = "patch" /\ cfgPrev.resp.status = 200 /\ cfgPrev.found
    /\ SettingsOnly(cfgPrev.body) /\ cfgPrev.id = cfgLast.id
    /\ (DOMAIN cfgPrev.body["settings"]) \cap (DOMAIN cfgLast.body["settings"]) = {}
    /\ LET pre == cfgLast.pre["plugins"]
       IN (DOMAIN Get(pre[FirstIndex(pre, cfgLast.id)], "settings", <<>>))
             \ (DOMAIN cfgLast.body["settings"]) # {}

\* C5: a patch of an id that no entry has appends exactly one entry
\* {id, enabled: partial.enabled or true, settings: partial.settings or {}};
\* the plugin count grows by one and every earlier entry keeps its value and
\* its position.
C5_PatchAppendsNewEntry ==
    (PatchSucceeded /\ ~cfgLast.found) =>
        LET pre  == Get(cfgLast.pre, "plugins", <<>>)
            post == PersistedPlugins
            b    == cfgLast.body
            new  == [id |-> cfgLast.id,
                     enabled  |-> IF "enabled" \in DOMAIN b THEN b["enabled"] ELSE TRUE,
                     settings |-> IF "settings" \in DOMAIN b THEN b["settings"] ELSE <<>>]
        IN /\ \A j \in 1..Len(pre) : pre[j]["id"] # cfgLast.id
           /\ Len(post) = Len(pre) + 1
           /\ \A j \in 1..Len(pre) : post[j] = pre[j]
           /\ post[Len(post)] = new
           /\ cfgLast.resp.body = new

\* C5 witness: an entry was created by a patch that names neither enabled nor
\* settings, in a document that already had entries.
C5_Witness ==
    /\ PatchSucceeded /\ ~cfgLast.found
    /\ cfgLast.body = <<>>
    /\ Len(Get(cfgLast.pre, "plugins", <<>>)) >= 1

\* C6: replace(d) returns d, and a read() that follows it with no write in
\* between returns a document equal to d.
C6_ReplaceThenRead ==
    (cfgLast.op = "replace" /\ cfgLast.resp.status = 200) =>
        LET rd == ReadConfig(configFile, defaultConfig)
        IN /\ rd.ok
           /\ ~rd.fallback
           /\ rd.val = cfgLast.body
           /\ cfgLast.resp.body = cfgLast.body

\* C6 witness: a document whose entry has neither enabled nor settings was
\* stored over the result of an earlier request.
C6_Witness ==
    /\ cfgLast.op = "replace" /\ cfgLast.resp.status = 200
    /\ cfgLast.body = [plugins |-> << [id |-> "x"] >>]
    /\ cfgPrev.op # "none"

(***************************************************************************)
(* Claims about the model factory                                          *)
(***************************************************************************)
\* C7: create_model with a mapping whose provider is neither "ollama" nor
\* "bedrock" (a mapping without a provider included) fails with the
\* unsupported-provider error and enters neither construction path: no client
\* is constructed.
C7_UnknownProviderRejected ==
    (/\ facLast.op = "create_model"
     /\ facLast.config.kind = "dict"
     /\ ("provider" \notin DOMAIN facLast.config.fields
         \/ facLast.config.fields["provider"] \notin Providers)) =>
        /\ facLast.result.outcome = "ValueError"
        /\ facLast.result.error = "Unsupported provider"
        /\ facLast.result.entered = {}
        /\ facLast.result.calls = <<>>
        /\ facLast.result.model = <<>>

\* C7 witness: a mapping without a provider was passed while both provider
\* packages were installed.
C7_Witness ==
    /\ facLast.op = "create_model"
    /\ facLast.config.kind = "dict"
    /\ "provider" \notin DOMAIN facLast.config.fields
    /\ facLast.installed = Providers

(***************************************************************************)
(* Claims about concurrent patches                                         *)
(***************************************************************************)
\* the persisted document holds what the request asked for
EffectPresent(req) ==
    LET i == FirstIndex(PersistedPlugins, req.id)
        S == Get(req.body, "settings", <<>>)
    IN /\ i > 0
       /\ "enabled" \in DOMAIN req.body => PersistedPlugins[i]["enabled"] = req.body["enabled"]
       /\ \A k \in DOMAIN S :
            /\ k \in DOMAIN PersistedPlugins[i]["settings"]
            /\ PersistedPlugins[i]["settings"][k] = S[k]

\* two requests for different ids that waited at the same time were both
\* answered with success
BothPatched ==
    /\ overlap
    /\ \A c \in Clients : inflight[c].state = "done" /\ inflight[c].resp.status = 200
    /\ inflight["c1"].id # inflight["c2"].id

====
